---- MODULE Spec2Model ----
(***************************************************************************)
(* Model of Script/map.js: the pan/zoom controller of the image-based      *)
(* world map.  The module-level variables of the script are the state,     *)
(* every event handler and every public function is one action.            *)
(*                                                                         *)
(* Numbers.  JavaScript numbers are modelled as exact rationals <<n, d>>   *)
(* (d > 0, lowest terms), so that 0.2, 0.5, scale ratios and midpoints are *)
(* computed as the code computes them, without rounding.  Pointer and      *)
(* touch coordinates are integers.  Math.sqrt is exact on the perfect      *)
(* squares the touch inputs are drawn from.                                *)
(***************************************************************************)
EXTENDS Integers, Sequences, FiniteSets, TLC

\* ------------------------------------------------------------------------
\* Bounds of the model
\* ------------------------------------------------------------------------
\* number of events handled in one behaviour
MaxSteps == 3

\* ------------------------------------------------------------------------
\* Rational arithmetic (the Number type of the script)
\* ------------------------------------------------------------------------
Abs(n) == IF n < 0 THEN -n ELSE n

RECURSIVE Gcd(_, _)
Gcd(a, b) == IF b = 0 THEN a ELSE Gcd(b, a % b)

\* lowest terms, positive denominator
Norm(n, d) ==
    LET g == Gcd(Abs(n), Abs(d))
        s == IF d < 0 THEN -1 ELSE 1
    IN  <<(s * n) \div g, (s * d) \div g>>

Num(n)     == <<n, 1>>
\* (operands are in lowest terms; common factors are cancelled before
\* multiplying, to keep the integers small)
Add(a, b)  == IF a[2] = 1 /\ b[2] = 1 THEN <<a[1] + b[1], 1>>
              ELSE LET g == Gcd(a[2], b[2])
                   IN  Norm(a[1] * (b[2] \div g) + b[1] * (a[2] \div g), (a[2] \div g) * b[2])
Sub(a, b)  == Add(a, <<-b[1], b[2]>>)
Mul(a, b)  == IF a[2] = 1 /\ b[2] = 1 THEN <<a[1] * b[1], 1>>
              ELSE LET g1 == Gcd(Abs(a[1]), b[2])
                       g2 == Gcd(Abs(b[1]), a[2])
                   IN  <<(a[1] \div g1) * (b[1] \div g2), (a[2] \div g2) * (b[2] \div g1)>>
Div(a, b)  == Mul(a, IF b[1] < 0 THEN <<-b[2], -b[1]>> ELSE <<b[2], b[1]>>)
Lt(a, b)   == IF a[2] = b[2] THEN a[1] < b[1] ELSE Sub(a, b)[1] < 0
Le(a, b)   == IF a[2] = b[2] THEN a[1] <= b[1] ELSE Sub(a, b)[1] <= 0

\* Math.min / Math.max
MathMin(a, b) == IF Lt(b, a) THEN b ELSE a
MathMax(a, b) == IF Lt(a, b) THEN b ELSE a

\* Math.round: the nearest integer, halves rounded up
MathRound(a) == (2 * a[1] + a[2]) \div (2 * a[2])

\* Math.sqrt on a perfect square n: the r with r * r = n, by bisection
RECURSIVE SqrtIn(_, _, _)
SqrtIn(n, lo, hi) ==
    IF lo >= hi THEN lo
    ELSE LET mid == (lo + hi + 1) \div 2
         IN  IF mid * mid <= n THEN SqrtIn(n, mid, hi) ELSE SqrtIn(n, lo, mid - 1)

\* (the root of a 32-bit square is below 46341)
MathSqrt(n) == SqrtIn(n, 0, IF n > 46340 THEN 46340 ELSE n)

\* ------------------------------------------------------------------------
\* Configuration constants of the script
\* ------------------------------------------------------------------------
MIN_SCALE == <<1, 2>>
MAX_SCALE == <<5, 1>>
ZOOM_STEP == <<1, 5>>
PAN_STEP  == 30

\* ------------------------------------------------------------------------
\* The page the script runs in: layout boxes (before any transform) of the
\* container and of the wrapper, and the window's inner size.
\* ------------------------------------------------------------------------
ContainerBox == [left |-> 20, top |-> 10, width |-> 400, height |-> 300]
WrapperBox   == [left |-> 20, top |-> 10, width |-> 400, height |-> 300]
WindowBox    == [left |-> 0, top |-> 0, width |-> 800, height |-> 600]

\* The pages the script is loaded in: which of #mapContainer, #mapWrapper and
\* #zoomLevel exist, and the stylesheet's transform-origin of the wrapper (top
\* left, or the CSS default, the centre of the box).
Page(c, w, z, o) == [container |-> c, wrapper |-> w, display |-> z, origin |-> o]
Pages == {Page(TRUE, TRUE, TRUE, "0 0"), Page(TRUE, TRUE, FALSE, "50% 50%"),
          Page(FALSE, TRUE, TRUE, "0 0"), Page(FALSE, TRUE, FALSE, "50% 50%"),
          Page(TRUE, FALSE, TRUE, "0 0"), Page(FALSE, FALSE, FALSE, "0 0")}

\* ------------------------------------------------------------------------
\* Inputs
\* ------------------------------------------------------------------------
P1 == [clientX |-> 100, clientY |-> 100]
P2 == [clientX |-> 150, clientY |-> 130]
P3 == [clientX |-> 580, clientY |-> 740]
P4 == [clientX |-> 107, clientY |-> 124]

Points     == {P1, P2}
Buttons    == {0, 2}
DeltaYs    == {-100, 100}
\* e.touches of a touchstart / touchmove: one, two (distance 25 and 800) or
\* three touch points
TouchLists == {<<P1>>, <<P2>>, <<P1, P4>>, <<P1, P3>>, <<P1, P2, P3>>}
\* e.touches of a touchend: the touch points that remain
TouchesLeft == {<< >>, <<P2>>, <<P1, P3>>}
Keys       == {"+", "-", "0", "ArrowUp", "ArrowDown", "ArrowLeft", "ArrowRight", "a"}

\* ------------------------------------------------------------------------
\* State
\* ------------------------------------------------------------------------
VARIABLES
    scale, translateX, translateY,          \* Transform
    isDragging, dragStartX, dragStartY,     \* drag state
    dragOriginX, dragOriginY,
    lastPinchDist,                          \* pinch state
    mapContainer, mapWrapper, zoomDisplay,  \* DOM refs: TRUE when resolved
    listeners,                              \* event types with a listener attached
    grabbing,                               \* 'grabbing' in mapContainer.classList
    styleTransform,                         \* mapWrapper.style.transform
    zoomText,                               \* zoomDisplay.textContent
    transformOrigin,                        \* the wrapper's transform-origin
    ev,                                     \* the event handled last
    za,                                     \* the last step's zoomAround call
    pre,                                    \* the state before the last event
    prev,                                   \* the event before the last, and the Transform before it
    drag0,                                  \* pointer and translate at the last drag start, and
                                            \* whether a two-touch touchstart came after it
    steps

prog == <<scale, translateX, translateY, isDragging, dragStartX, dragStartY,
          dragOriginX, dragOriginY, lastPinchDist, mapContainer, mapWrapper,
          zoomDisplay, listeners, grabbing, styleTransform, zoomText,
          transformOrigin>>
vars == <<prog, ev, za, pre, prev, drag0, steps>>

\* the program's mutable state as one record
Snapshot ==
    [scale |-> scale, translateX |-> translateX, translateY |-> translateY,
     isDragging |-> isDragging, dragStartX |-> dragStartX, dragStartY |-> dragStartY,
     dragOriginX |-> dragOriginX, dragOriginY |-> dragOriginY,
     lastPinchDist |-> lastPinchDist, grabbing |-> grabbing,
     styleTransform |-> styleTransform, zoomText |-> zoomText]

NoPoint == [clientX |-> 0, clientY |-> 0]
Event(type, button, p, deltaY, touches, key) ==
    [type |-> type, button |-> button, p |-> p, deltaY |-> deltaY,
     touches |-> touches, key |-> key]
NoEvent == Event("init", 0, NoPoint, 0, << >>, "")
NoZoom  == [called |-> FALSE, newScale |-> Num(0), cx |-> Num(0), cy |-> Num(0)]

\* ------------------------------------------------------------------------
\* Rendering
\* ------------------------------------------------------------------------
\* 'translate(' + translateX + 'px, ' + translateY + 'px) scale(' + scale + ')'
TransformString(tx, ty, s) == <<"translate(", tx, "px, ", ty, "px) scale(", s, ")">>

\* 'Zoom: ' + Math.round(scale * 100) + '%'
ZoomString(s) == <<"Zoom: ", MathRound(Mul(s, Num(100))), "%">>

\* applyTransform(), run after the step's assignments to the Transform
\* applyTransform that leaves the readout alone
applyTransformNoReadout ==
    IF ~mapWrapper
    THEN UNCHANGED <<styleTransform, zoomText>>
    ELSE /\ styleTransform' = TransformString(translateX', translateY', scale')
         /\ zoomText' = zoomText

applyTransform ==
    IF ~mapWrapper
    THEN UNCHANGED <<styleTransform, zoomText>>
    ELSE /\ styleTransform' = TransformString(translateX', translateY', scale')
         /\ zoomText' = IF zoomDisplay THEN ZoomString(scale') ELSE zoomText

\* clamp without the upper bound
clampNoUpper(val, min, max) == MathMax(val, min)

clamp(val, min, max) == MathMin(MathMax(val, min), max)

\* ------------------------------------------------------------------------
\* Geometry of the page
\* ------------------------------------------------------------------------
\* offset of the transform origin inside the wrapper's layout box
OriginOffset(o) ==
    IF o = "0 0" THEN [x |-> Num(0), y |-> Num(0)]
    ELSE [x |-> Div(Num(WrapperBox.width), Num(2)),
          y |-> Div(Num(WrapperBox.height), Num(2))]

\* mapWrapper.getBoundingClientRect(): the layout box under
\* translate(tx, ty) scale(s) about the transform origin
WrapperRect(o, tx, ty, s) ==
    LET off == OriginOffset(o)
    IN  [left |-> Sub(Add(Add(Num(WrapperBox.left), off.x), tx), Mul(s, off.x)),
         top  |-> Sub(Add(Add(Num(WrapperBox.top), off.y), ty), Mul(s, off.y)),
         width  |-> Mul(s, Num(WrapperBox.width)),
         height |-> Mul(s, Num(WrapperBox.height))]

\* the rect zoomIn / zoomOut centre on: the container's, or the window's
CentreRect == IF mapContainer THEN ContainerBox ELSE WindowBox

\* ------------------------------------------------------------------------
\* zoomAround(newScale, cx, cy)
\* ------------------------------------------------------------------------
zoomAround(newScale, cx, cy) ==
    IF ~mapWrapper
    THEN /\ UNCHANGED <<scale, translateX, translateY, styleTransform, zoomText>>
         /\ za' = [called |-> TRUE, newScale |-> newScale, cx |-> cx, cy |-> cy]
    ELSE LET rect       == WrapperRect(transformOrigin, translateX, translateY, scale)
             originX    == Sub(cx, rect.left)
             originY    == Sub(cy, rect.top)
             scaleDelta == Div(newScale, scale)
         IN  /\ translateX' = Sub(cx, Add(rect.left, Mul(originX, scaleDelta)))
             /\ translateY' = Sub(cy, Add(rect.top, Mul(originY, scaleDelta)))
             /\ scale' = newScale
             /\ applyTransform
             /\ za' = [called |-> TRUE, newScale |-> newScale, cx |-> cx, cy |-> cy]

\* what every handled event records
Handled(e) ==
    /\ steps < MaxSteps
    /\ steps' = steps + 1
    /\ ev' = e
    /\ pre' = Snapshot
    /\ prev' = [type |-> ev.type, key |-> ev.key,
                scale |-> pre.scale, translateX |-> pre.translateX,
                translateY |-> pre.translateY]

dom  == <<mapContainer, mapWrapper, zoomDisplay, listeners, transformOrigin>>
dragVars == <<isDragging, dragStartX, dragStartY, dragOriginX, dragOriginY>>
view == <<scale, translateX, translateY, styleTransform, zoomText>>

\* ------------------------------------------------------------------------
\* Public functions
\* ------------------------------------------------------------------------
\* zoomIn without the early return at the bound
zoomInBodyNoReturn ==
    LET newScale == clamp(Add(scale, ZOOM_STEP), MIN_SCALE, MAX_SCALE)
        rect     == CentreRect
    IN  zoomAround(newScale,
                   Add(Num(rect.left), Div(Num(rect.width), Num(2))),
                   Add(Num(rect.top), Div(Num(rect.height), Num(2))))

zoomInBody ==
    LET newScale == clamp(Add(scale, ZOOM_STEP), MIN_SCALE, MAX_SCALE)
        rect     == CentreRect
    IN  IF newScale = scale
        THEN UNCHANGED view /\ za' = NoZoom
        ELSE zoomAround(newScale,
                        Add(Num(rect.left), Div(Num(rect.width), Num(2))),
                        Add(Num(rect.top), Div(Num(rect.height), Num(2))))

zoomOutBody ==
    LET newScale == clamp(Sub(scale, ZOOM_STEP), MIN_SCALE, MAX_SCALE)
        rect     == CentreRect
    IN  IF newScale = scale
        THEN UNCHANGED view /\ za' = NoZoom
        ELSE zoomAround(newScale,
                        Add(Num(rect.left), Div(Num(rect.width), Num(2))),
                        Add(Num(rect.top), Div(Num(rect.height), Num(2))))

\* resetView that forgets translateY
resetViewBodyKeepsY ==
    /\ scale' = Num(1)
    /\ translateX' = Num(0)
    /\ translateY' = translateY
    /\ applyTransform
    /\ za' = NoZoom

resetViewBody ==
    /\ scale' = Num(1)
    /\ translateX' = Num(0)
    /\ translateY' = Num(0)
    /\ applyTransform
    /\ za' = NoZoom

zoomIn ==
    /\ Handled(Event("zoomIn", 0, NoPoint, 0, << >>, ""))
    /\ zoomInBody
    /\ UNCHANGED <<dom, dragVars, lastPinchDist, grabbing, drag0>>

zoomOut ==
    /\ Handled(Event("zoomOut", 0, NoPoint, 0, << >>, ""))
    /\ zoomOutBody
    /\ UNCHANGED <<dom, dragVars, lastPinchDist, grabbing, drag0>>

\* resetView that also ends a drag in progress
resetViewEndsDrag ==
    /\ Handled(Event("resetView", 0, NoPoint, 0, << >>, ""))
    /\ resetViewBody
    /\ isDragging' = FALSE
    /\ UNCHANGED <<dom, dragStartX, dragStartY, dragOriginX, dragOriginY,
                   lastPinchDist, grabbing, drag0>>

resetView ==
    /\ Handled(Event("resetView", 0, NoPoint, 0, << >>, ""))
    /\ resetViewBody
    /\ UNCHANGED <<dom, dragVars, lastPinchDist, grabbing, drag0>>

\* ------------------------------------------------------------------------
\* Mouse drag
\* ------------------------------------------------------------------------
\* onMouseDown without the button check
onMouseDownAnyButton ==
    \E b \in Buttons, p \in Points :
        /\ "mousedown" \in listeners
        /\ Handled(Event("mousedown", b, p, 0, << >>, ""))
        /\ za' = NoZoom
        /\ isDragging' = TRUE
        /\ dragStartX' = p.clientX
        /\ dragStartY' = p.clientY
        /\ dragOriginX' = translateX
        /\ dragOriginY' = translateY
        /\ grabbing' = TRUE
        /\ drag0' = [p |-> p, tx |-> translateX, ty |-> translateY, pinched |-> FALSE]
        /\ UNCHANGED <<dom, view, lastPinchDist>>

onMouseDown ==
    \E b \in Buttons, p \in Points :
        /\ "mousedown" \in listeners
        /\ Handled(Event("mousedown", b, p, 0, << >>, ""))
        /\ za' = NoZoom
        /\ IF b # 0
           THEN UNCHANGED <<dragVars, grabbing, drag0>>
           ELSE /\ isDragging' = TRUE
                /\ dragStartX' = p.clientX
                /\ dragStartY' = p.clientY
                /\ dragOriginX' = translateX
                /\ dragOriginY' = translateY
                /\ grabbing' = TRUE
                /\ drag0' = [p |-> p, tx |-> translateX, ty |-> translateY, pinched |-> FALSE]
        /\ UNCHANGED <<dom, view, lastPinchDist>>

\* onMouseMove adding the delta to the current translate
onMouseMoveIncremental ==
    \E p \in Points :
        /\ "mousemove" \in listeners
        /\ Handled(Event("mousemove", 0, p, 0, << >>, ""))
        /\ za' = NoZoom
        /\ IF ~isDragging
           THEN UNCHANGED view
           ELSE /\ translateX' = Add(translateX, Num(p.clientX - dragStartX))
                /\ translateY' = Add(translateY, Num(p.clientY - dragStartY))
                /\ scale' = scale
                /\ applyTransform
        /\ UNCHANGED <<dom, dragVars, lastPinchDist, grabbing, drag0>>

\* onMouseMove without the early return
onMouseMoveNoReturn ==
    \E p \in Points :
        /\ "mousemove" \in listeners
        /\ Handled(Event("mousemove", 0, p, 0, << >>, ""))
        /\ za' = NoZoom
        /\ translateX' = Add(dragOriginX, Num(p.clientX - dragStartX))
        /\ translateY' = Add(dragOriginY, Num(p.clientY - dragStartY))
        /\ scale' = scale
        /\ applyTransform
        /\ UNCHANGED <<dom, dragVars, lastPinchDist, grabbing, drag0>>

onMouseMove ==
    \E p \in Points :
        /\ "mousemove" \in listeners
        /\ Handled(Event("mousemove", 0, p, 0, << >>, ""))
        /\ za' = NoZoom
        /\ IF ~isDragging
           THEN UNCHANGED view
           ELSE /\ translateX' = Add(dragOriginX, Num(p.clientX - dragStartX))
                /\ translateY' = Add(dragOriginY, Num(p.clientY - dragStartY))
                /\ scale' = scale
                /\ applyTransform
        /\ UNCHANGED <<dom, dragVars, lastPinchDist, grabbing, drag0>>

onMouseUp ==
    /\ "mouseup" \in listeners
    /\ Handled(Event("mouseup", 0, NoPoint, 0, << >>, ""))
    /\ za' = NoZoom
    /\ IF ~isDragging
       THEN UNCHANGED <<isDragging, grabbing>>
       ELSE isDragging' = FALSE /\ grabbing' = FALSE
    /\ UNCHANGED <<dom, view, dragStartX, dragStartY, dragOriginX, dragOriginY,
                   lastPinchDist, drag0>>

\* ------------------------------------------------------------------------
\* Scroll-to-zoom
\* ------------------------------------------------------------------------
\* onWheel with the direction of deltaY swapped
onWheelSwapped ==
    \E dy \in DeltaYs, p \in Points :
        /\ "wheel" \in listeners
        /\ Handled(Event("wheel", 0, p, dy, << >>, ""))
        /\ LET delta    == IF dy > 0 THEN ZOOM_STEP ELSE Sub(Num(0), ZOOM_STEP)
               newScale == clamp(Add(scale, delta), MIN_SCALE, MAX_SCALE)
           IN  IF newScale # scale
               THEN zoomAround(newScale, Num(p.clientX), Num(p.clientY))
               ELSE UNCHANGED view /\ za' = NoZoom
        /\ UNCHANGED <<dom, dragVars, lastPinchDist, grabbing, drag0>>

onWheel ==
    \E dy \in DeltaYs, p \in Points :
        /\ "wheel" \in listeners
        /\ Handled(Event("wheel", 0, p, dy, << >>, ""))
        /\ LET delta    == IF dy < 0 THEN ZOOM_STEP ELSE Sub(Num(0), ZOOM_STEP)
               newScale == clamp(Add(scale, delta), MIN_SCALE, MAX_SCALE)
           IN  IF newScale # scale
               THEN zoomAround(newScale, Num(p.clientX), Num(p.clientY))
               ELSE UNCHANGED view /\ za' = NoZoom
        /\ UNCHANGED <<dom, dragVars, lastPinchDist, grabbing, drag0>>

\* ------------------------------------------------------------------------
\* Touch
\* ------------------------------------------------------------------------
getTouchDist(touches) ==
    LET dx == touches[1].clientX - touches[2].clientX
        dy == touches[1].clientY - touches[2].clientY
    IN  MathSqrt(dx * dx + dy * dy)

\* onTouchStart that lets the drag go on under a second finger
onTouchStartKeepsDrag ==
    \E touches \in TouchLists :
        /\ "touchstart" \in listeners
        /\ Handled(Event("touchstart", 0, NoPoint, 0, touches, ""))
        /\ za' = NoZoom
        /\ IF Len(touches) = 1
           THEN /\ isDragging' = TRUE
                /\ dragStartX' = touches[1].clientX
                /\ dragStartY' = touches[1].clientY
                /\ dragOriginX' = translateX
                /\ dragOriginY' = translateY
                /\ drag0' = [p |-> touches[1], tx |-> translateX, ty |-> translateY,
                           pinched |-> FALSE]
                /\ UNCHANGED lastPinchDist
           ELSE IF Len(touches) = 2
           THEN /\ lastPinchDist' = getTouchDist(touches)
                /\ drag0' = [drag0 EXCEPT !.pinched = TRUE]
                /\ UNCHANGED dragVars
           ELSE UNCHANGED <<dragVars, lastPinchDist, drag0>>
        /\ UNCHANGED <<dom, view, grabbing>>

onTouchStart ==
    \E touches \in TouchLists :
        /\ "touchstart" \in listeners
        /\ Handled(Event("touchstart", 0, NoPoint, 0, touches, ""))
        /\ za' = NoZoom
        /\ IF Len(touches) = 1
           THEN /\ isDragging' = TRUE
                /\ dragStartX' = touches[1].clientX
                /\ dragStartY' = touches[1].clientY
                /\ dragOriginX' = translateX
                /\ dragOriginY' = translateY
                /\ drag0' = [p |-> touches[1], tx |-> translateX, ty |-> translateY,
                           pinched |-> FALSE]
                /\ UNCHANGED lastPinchDist
           ELSE IF Len(touches) = 2
           THEN /\ isDragging' = FALSE
                /\ lastPinchDist' = getTouchDist(touches)
                /\ drag0' = [drag0 EXCEPT !.pinched = TRUE]
                /\ UNCHANGED <<dragStartX, dragStartY, dragOriginX, dragOriginY>>
           ELSE UNCHANGED <<dragVars, lastPinchDist, drag0>>
        /\ UNCHANGED <<dom, view, grabbing>>

\* onTouchMove that measures every pinch move from the first baseline
onTouchMoveKeepsBaseline ==
    \E touches \in TouchLists :
        /\ "touchmove" \in listeners
        /\ Handled(Event("touchmove", 0, NoPoint, 0, touches, ""))
        /\ IF Len(touches) = 1 /\ isDragging
           THEN /\ translateX' = Add(dragOriginX, Num(touches[1].clientX - dragStartX))
                /\ translateY' = Add(dragOriginY, Num(touches[1].clientY - dragStartY))
                /\ scale' = scale
                /\ applyTransform
                /\ za' = NoZoom
                /\ UNCHANGED lastPinchDist
           ELSE IF Len(touches) = 2
           THEN LET dist       == getTouchDist(touches)
                    pinchDelta == Div(Num(dist - lastPinchDist), Num(200))
                    newScale   == clamp(Add(scale, pinchDelta), MIN_SCALE, MAX_SCALE)
                    midX == Div(Num(touches[1].clientX + touches[2].clientX), Num(2))
                    midY == Div(Num(touches[1].clientY + touches[2].clientY), Num(2))
                IN  /\ zoomAround(newScale, midX, midY)
                    /\ lastPinchDist' = lastPinchDist
           ELSE UNCHANGED <<view, lastPinchDist>> /\ za' = NoZoom
        /\ UNCHANGED <<dom, dragVars, grabbing, drag0>>

onTouchMove ==
    \E touches \in TouchLists :
        /\ "touchmove" \in listeners
        /\ Handled(Event("touchmove", 0, NoPoint, 0, touches, ""))
        /\ IF Len(touches) = 1 /\ isDragging
           THEN /\ translateX' = Add(dragOriginX, Num(touches[1].clientX - dragStartX))
                /\ translateY' = Add(dragOriginY, Num(touches[1].clientY - dragStartY))
                /\ scale' = scale
                /\ applyTransform
                /\ za' = NoZoom
                /\ UNCHANGED lastPinchDist
           ELSE IF Len(touches) = 2
           THEN LET dist       == getTouchDist(touches)
                    pinchDelta == Div(Num(dist - lastPinchDist), Num(200))
                    newScale   == clamp(Add(scale, pinchDelta), MIN_SCALE, MAX_SCALE)
                    midX == Div(Num(touches[1].clientX + touches[2].clientX), Num(2))
                    midY == Div(Num(touches[1].clientY + touches[2].clientY), Num(2))
                IN  /\ zoomAround(newScale, midX, midY)
                    /\ lastPinchDist' = dist
           ELSE UNCHANGED <<view, lastPinchDist>> /\ za' = NoZoom
        /\ UNCHANGED <<dom, dragVars, grabbing, drag0>>

\* onTouchEnd that resets the whole view when the last finger is lifted
onTouchEndResetsView ==
    \E touches \in TouchesLeft :
        /\ "touchend" \in listeners
        /\ Handled(Event("touchend", 0, NoPoint, 0, touches, ""))
        /\ za' = NoZoom
        /\ IF Len(touches) = 0
           THEN /\ isDragging' = FALSE /\ lastPinchDist' = 0
                /\ scale' = Num(1) /\ translateX' = Num(0) /\ translateY' = Num(0)
                /\ applyTransform
           ELSE UNCHANGED <<isDragging, lastPinchDist, view>>
        /\ UNCHANGED <<dom, dragStartX, dragStartY, dragOriginX, dragOriginY,
                       grabbing, drag0>>

\* onTouchEnd that resumes the drag when one finger remains
onTouchEndResumesDrag ==
    \E touches \in TouchesLeft :
        /\ "touchend" \in listeners
        /\ Handled(Event("touchend", 0, NoPoint, 0, touches, ""))
        /\ za' = NoZoom
        /\ IF Len(touches) = 0
           THEN isDragging' = FALSE /\ lastPinchDist' = 0
           ELSE IF Len(touches) = 1
           THEN isDragging' = TRUE /\ UNCHANGED lastPinchDist
           ELSE UNCHANGED <<isDragging, lastPinchDist>>
        /\ UNCHANGED <<dom, view, dragStartX, dragStartY, dragOriginX, dragOriginY,
                       grabbing, drag0>>

onTouchEnd ==
    \E touches \in TouchesLeft :
        /\ "touchend" \in listeners
        /\ Handled(Event("touchend", 0, NoPoint, 0, touches, ""))
        /\ za' = NoZoom
        /\ IF Len(touches) = 0
           THEN isDragging' = FALSE /\ lastPinchDist' = 0
           ELSE UNCHANGED <<isDragging, lastPinchDist>>
        /\ UNCHANGED <<dom, view, dragStartX, dragStartY, dragOriginX, dragOriginY,
                       grabbing, drag0>>

\* ------------------------------------------------------------------------
\* Keyboard
\* ------------------------------------------------------------------------
\* onKeyDown with ArrowRight panning the way ArrowLeft does
onKeyDownRightAdds ==
    \E key \in Keys :
        /\ "keydown" \in listeners
        /\ Handled(Event("keydown", 0, NoPoint, 0, << >>, key))
        /\ IF ~mapContainer THEN UNCHANGED view /\ za' = NoZoom
           ELSE IF key \in {"+", "="} THEN zoomInBody
           ELSE IF key \in {"-", "_"} THEN zoomOutBody
           ELSE IF key = "0" THEN resetViewBody
           ELSE IF key = "ArrowUp"
                THEN /\ translateY' = Add(translateY, Num(PAN_STEP))
                     /\ UNCHANGED <<scale, translateX>>
                     /\ applyTransform /\ za' = NoZoom
           ELSE IF key = "ArrowDown"
                THEN /\ translateY' = Sub(translateY, Num(PAN_STEP))
                     /\ UNCHANGED <<scale, translateX>>
                     /\ applyTransform /\ za' = NoZoom
           ELSE IF key = "ArrowLeft"
                THEN /\ translateX' = Add(translateX, Num(PAN_STEP))
                     /\ UNCHANGED <<scale, translateY>>
                     /\ applyTransform /\ za' = NoZoom
           ELSE IF key = "ArrowRight"
                THEN /\ translateX' = Add(translateX, Num(PAN_STEP))
                     /\ UNCHANGED <<scale, translateY>>
                     /\ applyTransform /\ za' = NoZoom
           ELSE UNCHANGED view /\ za' = NoZoom
        /\ UNCHANGED <<dom, dragVars, lastPinchDist, grabbing, drag0>>

onKeyDown ==
    \E key \in Keys :
        /\ "keydown" \in listeners
        /\ Handled(Event("keydown", 0, NoPoint, 0, << >>, key))
        /\ IF ~mapContainer THEN UNCHANGED view /\ za' = NoZoom
           ELSE IF key \in {"+", "="} THEN zoomInBody
           ELSE IF key \in {"-", "_"} THEN zoomOutBody
           ELSE IF key = "0" THEN resetViewBody
           ELSE IF key = "ArrowUp"
                THEN /\ translateY' = Add(translateY, Num(PAN_STEP))
                     /\ UNCHANGED <<scale, translateX>>
                     /\ applyTransform /\ za' = NoZoom
           ELSE IF key = "ArrowDown"
                THEN /\ translateY' = Sub(translateY, Num(PAN_STEP))
                     /\ UNCHANGED <<scale, translateX>>
                     /\ applyTransform /\ za' = NoZoom
           ELSE IF key = "ArrowLeft"
                THEN /\ translateX' = Add(translateX, Num(PAN_STEP))
                     /\ UNCHANGED <<scale, translateY>>
                     /\ applyTransform /\ za' = NoZoom
           ELSE IF key = "ArrowRight"
                THEN /\ translateX' = Sub(translateX, Num(PAN_STEP))
                     /\ UNCHANGED <<scale, translateY>>
                     /\ applyTransform /\ za' = NoZoom
           ELSE UNCHANGED view /\ za' = NoZoom
        /\ UNCHANGED <<dom, dragVars, lastPinchDist, grabbing, drag0>>

\* ------------------------------------------------------------------------
\* init(): the state once the script has run on a loaded page
\* ------------------------------------------------------------------------
AllListeners == {"mousedown", "mousemove", "mouseup", "wheel", "touchstart",
                 "touchmove", "touchend", "keydown", "contextmenu"}

Init ==
    \E page \in Pages :
        /\ mapContainer = page.container
        /\ mapWrapper = page.wrapper
        /\ zoomDisplay = page.display
        /\ transformOrigin = page.origin
        /\ scale = Num(1)
        /\ translateX = Num(0)
        /\ translateY = Num(0)
        /\ isDragging = FALSE
        /\ dragStartX = 0
        /\ dragStartY = 0
        /\ dragOriginX = Num(0)
        /\ dragOriginY = Num(0)
        /\ lastPinchDist = 0
        /\ grabbing = FALSE
        /\ listeners = IF page.container /\ page.wrapper THEN AllListeners ELSE {}
        /\ styleTransform = IF page.container /\ page.wrapper THEN TransformString(Num(0), Num(0), Num(1)) ELSE << >>
        /\ zoomText = IF page.container /\ page.wrapper /\ page.display THEN ZoomString(Num(1)) ELSE << >>
        /\ ev = NoEvent
        /\ za = NoZoom
        /\ pre = Snapshot
        /\ prev = [type |-> "init", key |-> "", scale |-> Num(1),
                   translateX |-> Num(0), translateY |-> Num(0)]
        /\ drag0 = [p |-> NoPoint, tx |-> Num(0), ty |-> Num(0), pinched |-> FALSE]
        /\ steps = 0

Next ==
    \/ zoomIn
    \/ zoomOut
    \/ resetView
    \/ onMouseDown
    \/ onMouseMove
    \/ onMouseUp
    \/ onWheel
    \/ onTouchStart
    \/ onTouchMove
    \/ onTouchEnd
    \/ onKeyDown

Spec == Init /\ [][Next]_vars

\* ------------------------------------------------------------------------
\* Vocabulary of the properties
\* ------------------------------------------------------------------------
Transform     == <<scale, translateX, translateY>>
PreTransform  == <<pre.scale, pre.translateX, pre.translateY>>
PrevTransform == <<prev.scale, prev.translateX, prev.translateY>>
Identity      == <<Num(1), Num(0), Num(0)>>

\* the last event was a call of window.zoomIn / zoomOut / resetView, from a
\* button or from the keyboard shortcut
ZoomInCalled  == ev.type = "zoomIn" \/ (ev.type = "keydown" /\ ev.key \in {"+", "="})
ZoomOutCalled == ev.type = "zoomOut" \/ (ev.type = "keydown" /\ ev.key \in {"-", "_"})
ResetCalled   == ev.type = "resetView" \/ (ev.type = "keydown" /\ ev.key = "0")
PrevWasReset  == prev.type = "resetView" \/ (prev.type = "keydown" /\ prev.key = "0")

\* the last event was a move of an active drag, and the pointer it moved to
DragMove ==
    /\ pre.isDragging
    /\ \/ ev.type = "mousemove"
       \/ ev.type = "touchmove" /\ Len(ev.touches) = 1
Pointer == IF ev.type = "touchmove" THEN ev.touches[1] ELSE ev.p

\* the square of the distance between the two touch points of the last event
TouchDistSquared ==
    (ev.touches[1].clientX - ev.touches[2].clientX)
        * (ev.touches[1].clientX - ev.touches[2].clientX)
    + (ev.touches[1].clientY - ev.touches[2].clientY)
        * (ev.touches[1].clientY - ev.touches[2].clientY)

\* the screen position of the wrapper's transform origin when untransformed
OriginX == Add(Num(WrapperBox.left), OriginOffset(transformOrigin).x)
OriginY == Add(Num(WrapperBox.top), OriginOffset(transformOrigin).y)

\* ------------------------------------------------------------------------
\* C1: in every reachable state MIN_SCALE <= scale <= MAX_SCALE.
\* ------------------------------------------------------------------------
ScaleInRange == Le(<<1, 2>>, scale) /\ Le(scale, <<5, 1>>)

\* a pinch that asked for more than MAX_SCALE was handled
ScaleInRangeWitness ==
    /\ ev.type = "touchmove" /\ Len(ev.touches) = 2
    /\ TouchDistSquared = 640000
    /\ Lt(<<5, 1>>, Add(pre.scale, Div(Num(800 - pre.lastPinchDist), Num(200))))
    /\ scale = <<5, 1>>

\* ------------------------------------------------------------------------
\* C2: zoomIn() at MAX_SCALE and zoomOut() at MIN_SCALE leave scale,
\* translateX and translateY as they were, whatever the translate is.
\* ------------------------------------------------------------------------
NoOpAtBounds ==
    /\ (ZoomInCalled /\ pre.scale = <<5, 1>>) => Transform = PreTransform
    /\ (ZoomOutCalled /\ pre.scale = <<1, 2>>) => Transform = PreTransform

\* zoomIn() was called at MAX_SCALE with a non-zero translate
NoOpAtBoundsWitness ==
    /\ ev.type = "zoomIn"
    /\ pre.scale = <<5, 1>>
    /\ pre.translateX # Num(0)
    /\ pre.translateY # Num(0)

\* ------------------------------------------------------------------------
\* C3: after zoomAround(newScale, cx, cy) the image point that was rendered
\* at (cx, cy) before the call is rendered at (cx, cy) again.
\* ------------------------------------------------------------------------
\* Stated for the enabled widget and the transform-origin "0 0", the one under
\* which the arithmetic of zoomAround anchors the first zoom of a fresh view.
AnchorStaysPut ==
    (za.called /\ mapContainer /\ mapWrapper /\ transformOrigin = "0 0") =>
        LET \* the point under (cx, cy) before the call, relative to the origin
            ux == Div(Sub(Sub(za.cx, OriginX), pre.translateX), pre.scale)
            uy == Div(Sub(Sub(za.cy, OriginY), pre.translateY), pre.scale)
        IN  /\ Add(Add(OriginX, translateX), Mul(scale, ux)) = za.cx
            /\ Add(Add(OriginY, translateY), Mul(scale, uy)) = za.cy

\* ------------------------------------------------------------------------
\* C4: when the container or the wrapper is not resolved, no listener is
\* attached and zoomIn, zoomOut and resetView change neither the Transform
\* nor the transform rendered on the image layer.
\* ------------------------------------------------------------------------
DisabledIsInert ==
    (~mapContainer \/ ~mapWrapper) =>
        /\ listeners = {}
        /\ ev.type \in {"zoomIn", "zoomOut", "resetView"} =>
              /\ Transform = PreTransform
              /\ styleTransform = pre.styleTransform

\* ------------------------------------------------------------------------
\* C5: resetView() yields scale 1 and translate (0, 0) from any state, and a
\* second resetView() right after it changes nothing.
\* ------------------------------------------------------------------------
ResetYieldsIdentity ==
    ResetCalled =>
        /\ Transform = Identity
        /\ PrevWasReset => /\ Transform = PreTransform
                           /\ styleTransform = pre.styleTransform
                           /\ zoomText = pre.zoomText

\* resetView() was called twice in a row, the first time on a zoomed and
\* panned view
ResetYieldsIdentityWitness ==
    /\ ev.type = "resetView"
    /\ prev.type = "resetView"
    /\ prev.scale # Num(1)
    /\ prev.translateX # Num(0)
    /\ prev.translateY # Num(0)

\* ------------------------------------------------------------------------
\* C6: after every move of a drag that started at translate (tx, ty) with
\* the pointer at (sx, sy), the translate is (tx + px - sx, ty + py - sy)
\* for the pointer position (px, py) of that move.
\* ------------------------------------------------------------------------
DragIsAnchored ==
    DragMove =>
        /\ translateX = Add(drag0.tx, Num(Pointer.clientX - drag0.p.clientX))
        /\ translateY = Add(drag0.ty, Num(Pointer.clientY - drag0.p.clientY))

\* the second move of a drag, after a first move that changed the translate
DragIsAnchoredWitness ==
    /\ DragMove
    /\ prev.type \in {"mousemove", "touchmove"}
    /\ PreTransform # PrevTransform
    /\ Transform # PreTransform

\* ------------------------------------------------------------------------
\* C7: a touch-start with exactly two touch points during a drag ends the
\* drag, records the distance of the two touch points as the pinch baseline
\* and leaves the Transform as it was.
\* ------------------------------------------------------------------------
PinchCancelsDrag ==
    (ev.type = "touchstart" /\ Len(ev.touches) = 2 /\ pre.isDragging) =>
        /\ ~isDragging
        /\ lastPinchDist >= 0
        /\ lastPinchDist * lastPinchDist = TouchDistSquared
        /\ Transform = PreTransform

\* a second finger came down 800 px away during a single-touch drag that
\* had moved the image
PinchCancelsDragWitness ==
    /\ ev.type = "touchstart" /\ Len(ev.touches) = 2
    /\ pre.isDragging
    /\ prev.type = "touchmove"
    /\ PreTransform # PrevTransform
    /\ lastPinchDist = 800

WheelZooms ==
    ev.type = "wheel" =>
        LET up     == Add(pre.scale, <<1, 5>>)
            down   == Sub(pre.scale, <<1, 5>>)
            target == IF ev.deltaY < 0
                      THEN (IF Lt(<<5, 1>>, up) THEN <<5, 1>> ELSE up)
                      ELSE (IF Lt(down, <<1, 2>>) THEN <<1, 2>> ELSE down)
        IN  /\ ev.deltaY # 0 => scale = target
            /\ target = pre.scale => Transform = PreTransform

\* the wheel was turned up at MAX_SCALE on a panned view
WheelZoomsWitness ==
    /\ ev.type = "wheel" /\ ev.deltaY < 0
    /\ pre.scale = <<5, 1>>
    /\ pre.translateX # Num(0)
    /\ prev.type # "init"

\* ------------------------------------------------------------------------
\* C10: after a touch-end that leaves one or zero touch points,
\* lastPinchDist is 0.
\* ------------------------------------------------------------------------
PinchEndsBelowTwo ==
    (ev.type = "touchend" /\ Len(ev.touches) < 2) => lastPinchDist = 0

\* the drag state and the pinch state, now and before the last event
DragState    == <<isDragging, dragStartX, dragStartY, dragOriginX, dragOriginY>>
PreDragState == <<pre.isDragging, pre.dragStartX, pre.dragStartY,
                  pre.dragOriginX, pre.dragOriginY>>

\* ------------------------------------------------------------------------
\* C11: a touch-move with two touch points that arrives while the pinch
\* state is Inactive (lastPinchDist = 0) changes neither scale nor
\* translate.
\* ------------------------------------------------------------------------
StrayPinchMoveIgnored ==
    (ev.type = "touchmove" /\ Len(ev.touches) = 2 /\ pre.lastPinchDist = 0) =>
        Transform = PreTransform

\* ------------------------------------------------------------------------
\* C12: a mouse-move or one-touch move while no drag is active, and a
\* mouse-up or touch-end while neither a drag nor a pinch is active, leave
\* the Transform, the drag state and the pinch state as they were.
\* ------------------------------------------------------------------------
StrayEventsAreNoOps ==
    LET Same == /\ Transform = PreTransform
                /\ DragState = PreDragState
                /\ lastPinchDist = pre.lastPinchDist
    IN  /\ (ev.type = "mousemove" /\ ~pre.isDragging) => Same
        /\ (ev.type = "touchmove" /\ Len(ev.touches) = 1 /\ ~pre.isDragging) => Same
        /\ (ev.type \in {"mouseup", "touchend"} /\ ~pre.isDragging
               /\ pre.lastPinchDist = 0) => Same

\* the mouse moved after a drag had ended, away from where that drag started
StrayEventsAreNoOpsWitness ==
    /\ ev.type = "mousemove"
    /\ ~pre.isDragging
    /\ prev.type = "mouseup"
    /\ ev.p.clientX # pre.dragStartX
    /\ pre.dragStartX # 0

\* ------------------------------------------------------------------------
\* C13: in every reachable state the container does not carry 'grabbing'
\* when no drag is active.
\* ------------------------------------------------------------------------
NoGrabbingWhenIdle == ~isDragging => ~grabbing

\* ------------------------------------------------------------------------
\* C14: on an enabled widget, after every handled event the transform
\* written to the image layer is the current Transform, and the readout,
\* when there is one, shows round(scale * 100) percent.
\* ------------------------------------------------------------------------
RenderedIsCurrent ==
    (mapContainer /\ mapWrapper) =>
        /\ styleTransform =
              <<"translate(", translateX, "px, ", translateY, "px) scale(", scale, ")">>
        /\ zoomDisplay =>
              \E n \in 50..500 :
                  /\ zoomText = <<"Zoom: ", n, "%">>
                  \* n is the integer nearest to scale * 100, halves going up:
                  \* n - 1/2 <= scale * 100 < n + 1/2
                  /\ (2 * n - 1) * scale[2] <= 200 * scale[1]
                  /\ 200 * scale[1] < (2 * n + 1) * scale[2]

\* an arrow key was pressed on a view whose zoom percentage is not a whole
\* number, on a page with a readout
RenderedIsCurrentWitness ==
    /\ mapContainer /\ mapWrapper /\ zoomDisplay
    /\ ev.type = "keydown" /\ ev.key = "ArrowUp"
    /\ (100 * scale[1]) % scale[2] # 0
    /\ translateY # pre.translateY

\* ------------------------------------------------------------------------
\* C15: a touch-move with two touch points at distance d sets scale to
\* clamp(scale + (d - lastPinchDist) / 200, MIN_SCALE, MAX_SCALE) and then
\* lastPinchDist to d.
\* ------------------------------------------------------------------------
PinchMoveZooms ==
    (ev.type = "touchmove" /\ Len(ev.touches) = 2) =>
        /\ lastPinchDist >= 0
        /\ lastPinchDist * lastPinchDist = TouchDistSquared
        /\ LET want == Add(pre.scale, <<lastPinchDist - pre.lastPinchDist, 200>>)
           IN  scale = IF Lt(want, <<1, 2>>) THEN <<1, 2>>
                       ELSE IF Lt(<<5, 1>>, want) THEN <<5, 1>>
                       ELSE want

\* the second of two consecutive two-touch moves: it changed the scale by
\* the change of distance since the first
PinchMoveZoomsWitness ==
    /\ ev.type = "touchmove" /\ Len(ev.touches) = 2
    /\ prev.type = "touchmove"
    /\ pre.scale # prev.scale
    /\ pre.lastPinchDist # 0
    /\ lastPinchDist # pre.lastPinchDist
    /\ scale = Add(pre.scale, <<lastPinchDist - pre.lastPinchDist, 200>>)

\* ------------------------------------------------------------------------
\* C16: a mouse-down with a button other than 0 leaves the drag state and
\* the Transform as they were, and, no drag being active, the mouse-moves
\* after it do not change the translate.
\* ------------------------------------------------------------------------
OtherButtonsDoNotDrag ==
    /\ (ev.type = "mousedown" /\ ev.button # 0) =>
           /\ DragState = PreDragState
           /\ Transform = PreTransform
    \* (a mouse-down that left isDragging false was one with another button)
    /\ (ev.type = "mousemove" /\ prev.type = "mousedown" /\ ~pre.isDragging) =>
           Transform = PreTransform

\* the mouse moved right after a mouse-down with button 2 on an idle widget,
\* away from the recorded drag start
OtherButtonsDoNotDragWitness ==
    /\ ev.type = "mousemove"
    /\ prev.type = "mousedown"
    /\ ~pre.isDragging
    /\ ev.p.clientX # pre.dragStartX
    /\ ev.p.clientY # pre.dragStartY

\* ------------------------------------------------------------------------
\* C17: scale changes only through zoomAround or resetView; mouse and
\* one-touch drag moves, drag starts and ends and arrow keys leave it alone.
\* ------------------------------------------------------------------------
ScaleChangesOnlyByZoom ==
    LET PanOrDrag ==
            \/ ev.type \in {"mousedown", "mousemove", "mouseup", "touchstart", "touchend"}
            \/ ev.type = "touchmove" /\ Len(ev.touches) = 1
            \/ ev.type = "keydown"
                   /\ ev.key \in {"ArrowUp", "ArrowDown", "ArrowLeft", "ArrowRight"}
    IN  /\ (scale # pre.scale) => (za.called \/ ResetCalled)
        /\ PanOrDrag => (scale = pre.scale)

\* a drag moved the image on a zoomed view
ScaleChangesOnlyByZoomWitness ==
    /\ DragMove
    /\ prev.type \in {"mousedown", "touchstart"}
    /\ <<translateX, translateY>> # <<pre.translateX, pre.translateY>>
    /\ scale # Num(1)

\* ------------------------------------------------------------------------
\* C18: zoomIn, zoomOut, resetView, wheel events and key presses leave the
\* drag state and the pinch state as they were; so the move of an active
\* drag that follows one of them sets the translate to the drag's origin
\* translate plus the pointer delta since the drag start, whatever translate
\* that operation produced.
\* ------------------------------------------------------------------------
ZoomKeepsDragState ==
    LET Ops == {"zoomIn", "zoomOut", "resetView", "wheel", "keydown"}
    IN  /\ ev.type \in Ops =>
               /\ DragState = PreDragState
               /\ lastPinchDist = pre.lastPinchDist
        /\ (DragMove /\ prev.type \in Ops) =>
               /\ translateX = Add(drag0.tx, Num(Pointer.clientX - drag0.p.clientX))
               /\ translateY = Add(drag0.ty, Num(Pointer.clientY - drag0.p.clientY))
               /\ scale = pre.scale

\* a drag moved right after an operation that had changed the translate
\* during the drag: the translate it produced is gone
ZoomKeepsDragStateWitness ==
    /\ DragMove
    /\ prev.type \in {"zoomIn", "zoomOut", "resetView", "wheel", "keydown"}
    /\ <<pre.translateX, pre.translateY>> # <<prev.translateX, prev.translateY>>
    /\ <<prev.translateX, prev.translateY>> = <<drag0.tx, drag0.ty>>
    /\ Pointer = drag0.p
    /\ <<translateX, translateY>> = <<drag0.tx, drag0.ty>>
    /\ <<translateX, translateY>> # <<pre.translateX, pre.translateY>>

\* ------------------------------------------------------------------------
\* C19: after a touch-start with exactly two touch points, no touch-move
\* with one touch point changes the Transform until a touch-start with
\* exactly one touch point or a mouse-down with button 0 occurs.
\* ------------------------------------------------------------------------
NoDragAfterPinch ==
    (drag0.pinched /\ ev.type = "touchmove" /\ Len(ev.touches) = 1) =>
        Transform = PreTransform

\* one finger of a pinch was lifted and the other moved, away from the
\* recorded drag start
NoDragAfterPinchWitness ==
    /\ drag0.pinched
    /\ ev.type = "touchmove" /\ Len(ev.touches) = 1
    /\ prev.type = "touchend"
    /\ pre.lastPinchDist # 0
    /\ ~pre.isDragging
    /\ ev.touches[1].clientX # pre.dragStartX
    /\ ev.touches[1].clientY # pre.dragStartY

====
